---- MODULE Spec2Model ----
(***************************************************************************)
(* A model of fermats_bakery: the incremental Sieve of Eratosthenes        *)
(* (src/src/esieve.rs) and the Fermat and Miller-Rabin primality tests     *)
(* (src/src/primality.rs).                                                 *)
(*                                                                         *)
(* Spec          the sieve: with_upper_bound, sieve_once, run              *)
(* PrimalitySpec the primality tests applied to inputs (n, a)              *)
(***************************************************************************)
EXTENDS Integers, Sequences, FiniteSets

VARIABLES
    \* ---- SieveState (esieve.rs:22-29) and the caller's view of it
    is_known_composite, \* bit table, index n-1 -> "n is known composite"
    primes,             \* Vec<usize> of the primes found so far
    upper_bound,        \* usize
    last_divisor,       \* usize
    constructed,        \* a SieveState exists (with_upper_bound returned Ok)
    sieve_ret,          \* what the last sieve operation returned
    run_returned,       \* run has returned Ok(()) on this state
    \* ---- primality tests: the arguments and what each test did with them
    arg_n,              \* n: the integer under test
    arg_a,              \* a: the base
    fermat_ret,         \* "none" | "true" | "false" | "panic"
    miller_rabin_ret    \* "none" | "true" | "false" | "panic"

sieve_vars == <<is_known_composite, primes, upper_bound, last_divisor,
                constructed, sieve_ret, run_returned>>
primality_vars == <<arg_n, arg_a, fermat_ret, miller_rabin_ret>>
vars == <<is_known_composite, primes, upper_bound, last_divisor,
          constructed, sieve_ret, run_returned,
          arg_n, arg_a, fermat_ret, miller_rabin_ret>>

(***************************************************************************)
(* Bounds of the model.                                                    *)
(***************************************************************************)
\* usize is modelled as an unsigned integer of UsizeBits bits.
UsizeBits == 5
\* Candidates n of the primality tests range over -NegN .. MaxN (and the
\* values the repository's tests use, below); bases a over -MaxBase .. MaxBase.
NegN == 3
MaxN == 40
MaxBase == 8

RECURSIVE Pow2(_)
Pow2(e) == IF e = 0 THEN 1 ELSE 2 * Pow2(e - 1)

\* usize::MAX
UsizeMax == Pow2(UsizeBits) - 1

(***************************************************************************)
(* Option<usize>                                                           *)
(***************************************************************************)
None == [some |-> FALSE, val |-> 0]
Some(v) == [some |-> TRUE, val |-> v]

\* Faulty variant: a wrapping addition, as `+` in a release build.
wrapping_add(x, y) == Some((x + y) % Pow2(UsizeBits))

\* usize::checked_add: None when the sum does not fit a usize.
checked_add(x, y) == IF x + y > UsizeMax THEN None ELSE Some(x + y)

(***************************************************************************)
(* FixedBitSet: a function 0 .. len-1 -> BOOLEAN.                          *)
(***************************************************************************)
\* FixedBitSet::with_capacity(n): n bits, all unset.
BitSetWithCapacity(len) == [i \in 0 .. len - 1 |-> FALSE]

\* Index<usize>: a bit outside the capacity reads as false.
BitGet(bits, i) == IF i \in DOMAIN bits THEN bits[i] ELSE FALSE

(***************************************************************************)
(* find_next_divisor: scan potential_divisor upwards from last_divisor.    *)
(* ovf: the increment did not fit a usize; oob: a bit index outside        *)
(* 0 .. upper_bound-1 was read.                                            *)
(***************************************************************************)
RECURSIVE find_next_divisor_loop(_, _, _)
find_next_divisor_loop(potential_divisor, ub, bits) ==
    IF potential_divisor < ub
    THEN IF potential_divisor + 1 > UsizeMax
         THEN [some |-> FALSE, val |-> 0, ovf |-> TRUE, oob |-> FALSE]
         ELSE CHOOSE r \in {
                  IF pd - 1 \notin 0 .. ub - 1
                  THEN [some |-> ~BitGet(bits, pd - 1), val |-> pd,
                        ovf |-> FALSE, oob |-> TRUE]
                  ELSE IF ~BitGet(bits, pd - 1)
                       THEN [some |-> TRUE, val |-> pd, ovf |-> FALSE,
                             oob |-> FALSE]
                       ELSE find_next_divisor_loop(pd, ub, bits)
                  : pd \in {potential_divisor + 1}} : TRUE
    ELSE [some |-> FALSE, val |-> 0, ovf |-> FALSE, oob |-> FALSE]

\* Faulty variant: while potential_divisor <= upper_bound.
RECURSIVE find_next_divisor_loop_inclusive(_, _, _)
find_next_divisor_loop_inclusive(potential_divisor, ub, bits) ==
    IF potential_divisor <= ub
    THEN IF potential_divisor + 1 > UsizeMax
         THEN [some |-> FALSE, val |-> 0, ovf |-> TRUE, oob |-> FALSE]
         ELSE LET pd == potential_divisor + 1 IN
              IF pd - 1 \notin 0 .. ub - 1
              THEN [some |-> ~BitGet(bits, pd - 1), val |-> pd,
                    ovf |-> FALSE, oob |-> TRUE]
              ELSE IF ~BitGet(bits, pd - 1)
                   THEN [some |-> TRUE, val |-> pd, ovf |-> FALSE, oob |-> FALSE]
                   ELSE find_next_divisor_loop_inclusive(pd, ub, bits)
    ELSE [some |-> FALSE, val |-> 0, ovf |-> FALSE, oob |-> FALSE]

find_next_divisor_inclusive(ld, ub, bits) ==
    find_next_divisor_loop_inclusive(ld, ub, bits)

find_next_divisor(ld, ub, bits) == find_next_divisor_loop(ld, ub, bits)

(***************************************************************************)
(* mark_multiples_as_composite: set the bits of 2d, 3d, ... <= upper_bound.*)
(* FixedBitSet::set panics on an index outside the capacity.               *)
(***************************************************************************)
RECURSIVE mark_multiples_loop(_, _, _, _)
mark_multiples_loop(last_multiple, divisor, ub, bits) ==
    CHOOSE r \in {
        IF multiple.some
        THEN IF multiple.val <= ub
             THEN IF multiple.val - 1 \in DOMAIN bits
                  THEN mark_multiples_loop(multiple.val, divisor, ub,
                            [bits EXCEPT ![multiple.val - 1] = TRUE])
                  ELSE [bits |-> bits, panic |-> TRUE]
             ELSE [bits |-> bits, panic |-> FALSE]
        ELSE [bits |-> bits, panic |-> FALSE]
        : multiple \in {checked_add(last_multiple, divisor)}} : TRUE

\* Faulty variant: the walk stops at multiple < upper_bound, so the bound
\* itself is never marked.
RECURSIVE mark_multiples_loop_excl(_, _, _, _)
mark_multiples_loop_excl(last_multiple, divisor, ub, bits) ==
    LET multiple == checked_add(last_multiple, divisor) IN
    IF multiple.some /\ multiple.val < ub
    THEN mark_multiples_loop_excl(multiple.val, divisor, ub,
              [bits EXCEPT ![multiple.val - 1] = TRUE])
    ELSE [bits |-> bits, panic |-> FALSE]

mark_multiples_as_composite_excl(divisor, ub, bits) ==
    mark_multiples_loop_excl(divisor, divisor, ub, bits)

\* Faulty variant: the walk starts at 3 * divisor, so 2 * divisor is skipped.
mark_multiples_as_composite_skip_first(divisor, ub, bits) ==
    IF divisor + divisor > UsizeMax
    THEN [bits |-> bits, panic |-> FALSE]
    ELSE mark_multiples_loop(divisor + divisor, divisor, ub, bits)

\* Faulty variant: the walk starts at 0, so the divisor itself is marked.
mark_multiples_as_composite_from_zero(divisor, ub, bits) ==
    mark_multiples_loop(0, divisor, ub, bits)

mark_multiples_as_composite(divisor, ub, bits) ==
    mark_multiples_loop(divisor, divisor, ub, bits)

(***************************************************************************)
(* sieve_once on a state record; returns the new state and the result.     *)
(***************************************************************************)
\* Faulty variant: the divisor is inserted at the front of primes.
sieve_once_push_front(s) ==
    LET f == find_next_divisor(s.last_divisor, s.upper_bound, s.is_known_composite) IN
    IF f.ovf
    THEN [state |-> s, ret |-> "panic"]
    ELSE IF f.some
         THEN LET m == mark_multiples_as_composite(f.val, s.upper_bound,
                                                   s.is_known_composite) IN
              [state |-> [is_known_composite |-> m.bits,
                          primes |-> <<f.val>> \o s.primes,
                          upper_bound |-> s.upper_bound,
                          last_divisor |-> f.val],
               ret |-> IF m.panic THEN "panic" ELSE "Ok(true)"]
         ELSE [state |-> s, ret |-> "Ok(false)"]

\* The match on the Option that find_next_divisor returned.
sieve_once_match(s, f) ==
    IF f.ovf
    THEN [state |-> s, ret |-> "panic"]
    ELSE IF f.some
         THEN LET m == mark_multiples_as_composite(f.val, s.upper_bound,
                                                   s.is_known_composite) IN
              IF m.panic
              THEN [state |-> [s EXCEPT !.primes = Append(s.primes, f.val),
                                        !.is_known_composite = m.bits],
                    ret |-> "panic"]
              ELSE [state |-> [is_known_composite |-> m.bits,
                               primes |-> Append(s.primes, f.val),
                               upper_bound |-> s.upper_bound,
                               last_divisor |-> f.val],
                    ret |-> "Ok(true)"]
         ELSE [state |-> s, ret |-> "Ok(false)"]

\* `let next_divisor = self.find_next_divisor()?` is computed once per call:
\* the singleton set binds its value, as it does for the loop variables above.
sieve_once(s) ==
    CHOOSE r \in {sieve_once_match(s, f) :
                     f \in {find_next_divisor(s.last_divisor, s.upper_bound,
                                              s.is_known_composite)}} : TRUE

\* Faulty variant: `if sieve_once(state)? {}` in place of the while loop.
run_single_step(s) ==
    LET r == sieve_once(s) IN
    IF r.ret \in {"Ok(true)", "Ok(false)"}
    THEN [state |-> r.state, ret |-> "Ok(())"]
    ELSE r

\* run(state, UpperBoundReached): while sieve_once(state)? {}
RECURSIVE run(_)
run(s) ==
    CHOOSE x \in {
        IF r.ret = "Ok(true)" THEN run(r.state)
        ELSE IF r.ret = "Ok(false)" THEN [state |-> r.state, ret |-> "Ok(())"]
        ELSE r
        : r \in {sieve_once(s)}} : TRUE

\* The SieveState the variables hold.
TheState == [is_known_composite |-> is_known_composite,
             primes |-> primes,
             upper_bound |-> upper_bound,
             last_divisor |-> last_divisor]

(***************************************************************************)
(* The sieve's actions.                                                    *)
(***************************************************************************)
SieveInit ==
    /\ is_known_composite = <<>>
    /\ primes = <<>>
    /\ upper_bound = 0
    /\ last_divisor = 0
    /\ constructed = FALSE
    /\ sieve_ret = "none"
    /\ run_returned = FALSE

\* Faulty variant: last_divisor starts at 0 instead of 1.
with_upper_bound_from_zero(n) ==
    /\ ~constructed
    /\ IF n <= 0
       THEN /\ sieve_ret' = "Err(BadBound)"
            /\ UNCHANGED <<is_known_composite, primes, upper_bound,
                           last_divisor, constructed>>
       ELSE /\ is_known_composite' = BitSetWithCapacity(n)
            /\ primes' = <<>>
            /\ upper_bound' = n
            /\ last_divisor' = 0
            /\ constructed' = TRUE
            /\ sieve_ret' = "Ok(state)"
    /\ UNCHANGED run_returned
    /\ UNCHANGED primality_vars

\* SieveState::with_upper_bound(n)
with_upper_bound(n) ==
    /\ ~constructed
    /\ IF n <= 0
       THEN /\ sieve_ret' = "Err(BadBound)"
            /\ UNCHANGED <<is_known_composite, primes, upper_bound,
                           last_divisor, constructed>>
       ELSE /\ is_known_composite' = BitSetWithCapacity(n)
            /\ primes' = <<>>
            /\ upper_bound' = n
            /\ last_divisor' = 1
            /\ constructed' = TRUE
            /\ sieve_ret' = "Ok(state)"
    /\ UNCHANGED run_returned
    /\ UNCHANGED primality_vars

SieveOnce ==
    /\ constructed
    /\ sieve_ret # "panic"
    /\ \E r \in {sieve_once(TheState)} :
        /\ is_known_composite' = r.state.is_known_composite
        /\ primes' = r.state.primes
        /\ upper_bound' = r.state.upper_bound
        /\ last_divisor' = r.state.last_divisor
        /\ sieve_ret' = r.ret
    /\ UNCHANGED <<constructed, run_returned>>
    /\ UNCHANGED primality_vars

Run ==
    /\ constructed
    /\ sieve_ret # "panic"
    /\ \E r \in {run(TheState)} :
        /\ is_known_composite' = r.state.is_known_composite
        /\ primes' = r.state.primes
        /\ upper_bound' = r.state.upper_bound
        /\ last_divisor' = r.state.last_divisor
        /\ sieve_ret' = r.ret
        /\ run_returned' = (run_returned \/ r.ret = "Ok(())")
    /\ UNCHANGED constructed
    /\ UNCHANGED primality_vars

PrimalityIdle ==
    /\ arg_n = 0
    /\ arg_a = 0
    /\ fermat_ret = "none"
    /\ miller_rabin_ret = "none"

Init == SieveInit /\ PrimalityIdle

Next ==
    \/ \E n \in 0 .. UsizeMax : with_upper_bound(n)
    \/ SieveOnce
    \/ Run

Spec == Init /\ [][Next]_vars

\* The sieve with its stepping kept going: run's loop calls sieve_once again
\* for as long as the last call returned true.
FairSpec == Init /\ [][Next]_vars /\ WF_vars(SieveOnce)

(***************************************************************************)
(* Arbitrary-precision integers (rug::Integer).  rug's operations are      *)
(* modelled by their results; a product is reduced in two parts so that no *)
(* intermediate value leaves the range of the model checker's integers.    *)
(***************************************************************************)
\* (x * y) mod m for 0 <= x, y < m < 2^20, with y split into a high and a
\* low part of 10 bits so that every intermediate value stays below 2^31.
mul_mod(x, y, m) ==
    (((x * (y \div 1024)) % m) * 1024 + x * (y % 1024)) % m

\* Faulty variant: the truncating remainder (the sign of the dividend).
modulo_trunc(a, n) == IF a < 0 THEN -((-a) % n) ELSE a % n

\* Integer::modulo: the remainder of Euclidean division, in 0 .. n-1 for n > 0.
modulo(a, n) == a % n

\* Integer::pow_mod_mut(exponent, modulo) for exponent >= 0 and modulo > 0:
\* base^exponent mod modulo, in 0 .. modulo-1 (1 mod modulo for exponent 0),
\* also for a negative base.
RECURSIVE pow_mod_loop(_, _, _)
pow_mod_loop(r, e, m) ==
    IF e = 0 THEN 1 % m
    ELSE LET h == pow_mod_loop(r, e \div 2, m)
             sq == mul_mod(h, h, m)
         IN IF e % 2 = 1 THEN mul_mod(sq, r, m) ELSE sq

\* Faulty variant: exponent 0 gives 1 without reducing it modulo m.
pow_mod_unreduced_one(b, e, m) == IF e = 0 THEN 1 ELSE pow_mod_loop(b % m, e, m)

pow_mod(b, e, m) == pow_mod_loop(b % m, e, m)

(***************************************************************************)
(* fermats_test(n, a): "true", "false", or "panic" for a failed assert!.   *)
(***************************************************************************)
\* Faulty variant: the power is compared with a itself, not with a mod n.
fermats_test_no_reduce(n, a) ==
    IF n = 1 THEN "false"
    ELSE IF a = 0 THEN "panic"
    ELSE IF ~(n > 0) THEN "panic"
    ELSE LET c == pow_mod(a, n, n) IN
         IF c = a THEN "true" ELSE "false"

\* Faulty variant: the result of the exponentiation is discarded, c stays a.
fermats_test_discard_pow(n, a) ==
    IF n = 1 THEN "false"
    ELSE IF a = 0 THEN "panic"
    ELSE IF ~(n > 0) THEN "panic"
    ELSE LET c == a IN
         IF c = modulo(a, n) THEN "true" ELSE "false"

fermats_test(n, a) ==
    IF n = 1 THEN "false"
    ELSE IF a = 0 THEN "panic"
    ELSE IF ~(n > 0) THEN "panic"
    ELSE LET c == pow_mod(a, n, n) IN
         IF c = modulo(a, n) THEN "true" ELSE "false"

(***************************************************************************)
(* miller_rabin_test(n, a)                                                 *)
(***************************************************************************)
\* Faulty variant: halves while q > 1, without testing that q is even.
RECURSIVE miller_rabin_factor_no_even(_, _)
miller_rabin_factor_no_even(q, k) ==
    IF q > 1
    THEN miller_rabin_factor_no_even(q \div 2, k + 1)
    ELSE [q |-> q, k |-> k]

\* Factor n - 1 == 2**k q: halve q while it is even and greater than 1.
RECURSIVE miller_rabin_factor(_, _)
miller_rabin_factor(q, k) ==
    IF q > 1 /\ q % 2 = 0
    THEN miller_rabin_factor(q \div 2, k + 1)
    ELSE [q |-> q, k |-> k]

\* Faulty variant: squares before comparing with n - 1.
RECURSIVE miller_rabin_loop_square_first(_, _, _, _, _)
miller_rabin_loop_square_first(x, i, k, n, minus_one) ==
    IF i < k
    THEN LET y == pow_mod(x, 2, n) IN
         IF y = minus_one
         THEN "true"
         ELSE miller_rabin_loop_square_first(y, i + 1, k, n, minus_one)
    ELSE "false"

\* Faulty variant: a square equal to 1 is accepted as well.
RECURSIVE miller_rabin_loop_accept_one(_, _, _, _, _)
miller_rabin_loop_accept_one(x, i, k, n, minus_one) ==
    IF i < k
    THEN IF x = minus_one
         THEN "true"
         ELSE LET y == pow_mod(x, 2, n) IN
              IF y = 1
              THEN "true"
              ELSE miller_rabin_loop_accept_one(y, i + 1, k, n, minus_one)
    ELSE "false"

\* Faulty variant: while i <= k.
RECURSIVE miller_rabin_loop_inclusive(_, _, _, _, _)
miller_rabin_loop_inclusive(x, i, k, n, minus_one) ==
    IF i <= k
    THEN IF x = minus_one
         THEN "true"
         ELSE miller_rabin_loop_inclusive(pow_mod(x, 2, n), i + 1, k, n, minus_one)
    ELSE "false"

\* while i < k { if a == minus_one { return true } a = a^2 mod n; i += 1 }
\* return false
RECURSIVE miller_rabin_loop(_, _, _, _, _)
miller_rabin_loop(x, i, k, n, minus_one) ==
    IF i < k
    THEN IF x = minus_one
         THEN "true"
         ELSE miller_rabin_loop(pow_mod(x, 2, n), i + 1, k, n, minus_one)
    ELSE "false"

\* Faulty variant: without the special case n == 2.
miller_rabin_test_no_two(n, a) ==
    IF a = 0 THEN "panic"
    ELSE IF ~(n > 0) THEN "panic"
    ELSE LET f == miller_rabin_factor(n - 1, 0)
             minus_one == n - 1
             x == pow_mod(a, f.q, n)
         IN IF x = 1 THEN "true"
            ELSE miller_rabin_loop(x, 0, f.k, n, minus_one)

miller_rabin_test(n, a) ==
    IF a = 0 THEN "panic"
    ELSE IF ~(n > 0) THEN "panic"
    ELSE IF n = 2 THEN "true"
    ELSE LET f == miller_rabin_factor(n - 1, 0)
             minus_one == n - 1
             x == pow_mod(a, f.q, n)
         IN IF x = 1 THEN "true"
            ELSE miller_rabin_loop(x, 0, f.k, n, minus_one)

(***************************************************************************)
(* The values the repository's tests apply the two functions to.           *)
(***************************************************************************)
FIRST_100_PRIMES ==
    <<2, 3, 5, 7, 11, 13, 17, 19, 23, 29, 31, 37, 41, 43, 47, 53, 59, 61, 67, 71, 73, 79, 83, 89, 97,
      101, 103, 107, 109, 113, 127, 131, 137, 139, 149, 151, 157, 163, 167, 173, 179, 181, 191, 193,
      197, 199, 211, 223, 227, 229, 233, 239, 241, 251, 257, 263, 269, 271, 277, 281, 283, 293, 307,
      311, 313, 317, 331, 337, 347, 349, 353, 359, 367, 373, 379, 383, 389, 397, 401, 409, 419, 421,
      431, 433, 439, 443, 449, 457, 461, 463, 467, 479, 487, 491, 499, 503, 509, 521, 523, 541>>

NonCarmichaelComposites == {2 * 3, 3 * 7, 2 * 11, 11 * 18, 53 * 59}

Carmichael == {561, 41041, 825265}

TestedN == {FIRST_100_PRIMES[i] : i \in DOMAIN FIRST_100_PRIMES}
           \cup NonCarmichaelComposites \cup Carmichael

\* The arguments the model applies the tests to.
NInputs == (-NegN .. MaxN) \cup TestedN
AInputs == -MaxBase .. MaxBase

(***************************************************************************)
(* The primality tests' actions: each test is applied once to (n, a).      *)
(***************************************************************************)
PrimalityInit ==
    /\ SieveInit
    /\ arg_n \in NInputs
    /\ arg_a \in AInputs
    /\ fermat_ret = "none"
    /\ miller_rabin_ret = "none"

FermatsTest ==
    /\ fermat_ret = "none"
    /\ fermat_ret' = fermats_test(arg_n, arg_a)
    /\ UNCHANGED <<arg_n, arg_a, miller_rabin_ret>>
    /\ UNCHANGED sieve_vars

MillerRabinTest ==
    /\ miller_rabin_ret = "none"
    /\ miller_rabin_ret' = miller_rabin_test(arg_n, arg_a)
    /\ UNCHANGED <<arg_n, arg_a, fermat_ret>>
    /\ UNCHANGED sieve_vars

PrimalityNext ==
    \/ FermatsTest
    \/ MillerRabinTest

PrimalitySpec == PrimalityInit /\ [][PrimalityNext]_vars

(***************************************************************************)
(* Reference notions the properties are stated with.                       *)
(***************************************************************************)
\* p is prime: p >= 2 and no d in 2 .. p-1 divides it.
IsPrime(p) == p >= 2 /\ \A d \in 2 .. p - 1 : p % d # 0

\* The elements of a sequence.
Range(seq) == {seq[i] : i \in DOMAIN seq}

\* A sequence is strictly increasing.
StrictlyIncreasing(seq) ==
    \A i \in DOMAIN seq : \A j \in DOMAIN seq : i < j => seq[i] < seq[j]

(***************************************************************************)
(* Properties of the sieve (checked under Spec).                           *)
(***************************************************************************)
\* C1: once run has returned on a state built by with_upper_bound(b), b >= 1,
\* primes_found() is the ascending list of exactly the primes p with
\* 2 <= p <= b: no omission, no composite, no duplicate (empty for b = 1,
\* <<2>> for b = 2).
C1_RunFindsExactlyThePrimes ==
    run_returned =>
        /\ sieve_ret # "panic"
        /\ StrictlyIncreasing(primes)
        /\ Range(primes) = {p \in 2 .. upper_bound : IsPrime(p)}
        /\ (upper_bound = 1 => primes = <<>>)
        /\ (upper_bound = 2 => primes = <<2>>)

\* run has returned on a state whose bound is composite and >= 10.
C1_Witness ==
    /\ run_returned
    /\ sieve_ret = "Ok(())"
    /\ upper_bound >= 10
    /\ ~IsPrime(upper_bound)
    /\ Len(primes) >= 4

\* C7: once run has returned, every further step reports no progress and
\* leaves is_known_composite, primes, upper_bound and last_divisor unchanged:
\* sieve_once returns Ok(false), a second run returns Ok(()).
C7_IdempotentAfterRun ==
    [][run_returned =>
          /\ UNCHANGED <<is_known_composite, primes, upper_bound, last_divisor>>
          /\ sieve_ret' \in {"Ok(false)", "Ok(())"}
          /\ (SieveOnce => sieve_ret' = "Ok(false)")
          /\ (Run => sieve_ret' = "Ok(())")
          /\ run_returned']_vars

\* A sieve_once has been made after run returned, on a state with primes.
C7_Witness ==
    /\ run_returned
    /\ sieve_ret = "Ok(false)"
    /\ Len(primes) >= 3

\* C8: with_upper_bound(0) returns Err(BadBound) and builds no state; for
\* n >= 1 it returns Ok with upper_bound = n, primes empty, last_divisor = 1
\* and n bits, none set.  No other error is returned.
C8_Construction ==
    [][\A n \in 0 .. UsizeMax :
          with_upper_bound(n) =>
              IF n = 0
              THEN /\ sieve_ret' = "Err(BadBound)"
                   /\ ~constructed'
                   /\ UNCHANGED <<is_known_composite, primes, upper_bound,
                                  last_divisor>>
              ELSE /\ sieve_ret' = "Ok(state)"
                   /\ constructed'
                   /\ upper_bound' = n
                   /\ primes' = <<>>
                   /\ last_divisor' = 1
                   /\ DOMAIN is_known_composite' = 0 .. n - 1
                   /\ \A i \in 0 .. n - 1 : ~is_known_composite'[i]]_vars

\* with_upper_bound(1) has just returned Ok.
C8_Witness ==
    /\ constructed
    /\ sieve_ret = "Ok(state)"
    /\ upper_bound = 1
    /\ primes = <<>>

(***************************************************************************)
(* Reference arithmetic for the primality tests' properties: residues and  *)
(* powers by their definitions, independent of pow_mod.                    *)
(***************************************************************************)
\* The residue of a modulo n > 0: the r in 0 .. n-1 with n | a - r.
RefResidue(a, n) == CHOOSE r \in 0 .. n - 1 : (a - r) % n = 0

\* r^e mod n by e successive multiplications.
RECURSIVE RefPowMod(_, _, _)
RefPowMod(r, e, n) ==
    IF e = 0 THEN RefResidue(1, n) ELSE RefResidue(RefPowMod(r, e - 1, n) * r, n)

\* a^e mod n, residue in 0 .. n-1.
RefPow(a, e, n) == RefPowMod(RefResidue(a, n), e, n)

\* m = 2^k * q with q odd, for m >= 1.
RefK(m) == CHOOSE k \in 0 .. m : m % Pow2(k) = 0 /\ (m \div Pow2(k)) % 2 = 1
RefQ(m) == m \div Pow2(RefK(m))

(***************************************************************************)
(* Properties of the primality tests (checked under PrimalitySpec).        *)
(***************************************************************************)
\* C2: for both fermats_test and miller_rabin_test, a call with a = 0 or
\* with n <= 0 panics and returns no boolean, whatever the other argument.
C2_PreconditionViolationsPanic ==
    (arg_a = 0 \/ arg_n <= 0) =>
        /\ fermat_ret \in {"none", "panic"}
        /\ miller_rabin_ret \in {"none", "panic"}

\* C3: for n >= 2 and a # 0, fermats_test(n, a) returns true iff
\* a^n mod n = a mod n, both residues in 0 .. n-1.
C3_FermatIffCongruent ==
    (fermat_ret # "none" /\ arg_n >= 2 /\ arg_n <= MaxN /\ arg_a # 0) =>
        fermat_ret = IF RefPow(arg_a, arg_n, arg_n) = RefResidue(arg_a, arg_n)
                     THEN "true" ELSE "false"

\* fermats_test has returned for a negative base and a composite n that
\* satisfies the congruence.
C3_Witness ==
    /\ fermat_ret = "true"
    /\ arg_n >= 4 /\ arg_n <= MaxN /\ ~IsPrime(arg_n)
    /\ arg_a < -1

\* C4: for n >= 3 and a # 0, with n - 1 = 2^k * q and q odd,
\* miller_rabin_test(n, a) returns true iff a^q mod n = 1 or
\* a^(2^i * q) mod n = n - 1 for some i in 0 .. k-1, and false otherwise.
C4_MillerRabinIff ==
    (miller_rabin_ret # "none" /\ arg_n >= 3 /\ arg_n <= MaxN /\ arg_a # 0) =>
        LET k == RefK(arg_n - 1)
            q == RefQ(arg_n - 1)
        IN miller_rabin_ret =
              IF \/ RefPow(arg_a, q, arg_n) = 1
                 \/ \E i \in 0 .. k - 1 :
                       RefPow(arg_a, Pow2(i) * q, arg_n) = arg_n - 1
              THEN "true" ELSE "false"

\* miller_rabin_test has returned true through the squaring loop at i >= 1.
C4_Witness ==
    /\ miller_rabin_ret = "true"
    /\ arg_n >= 3 /\ arg_n <= MaxN /\ arg_a # 0
    /\ RefK(arg_n - 1) >= 2
    /\ RefPow(arg_a, RefQ(arg_n - 1), arg_n) \notin {1, arg_n - 1}

\* C5: for every prime n and every nonzero base a, miller_rabin_test(n, a)
\* returns true (a false result means n is composite).
C5_PrimesPassMillerRabin ==
    (miller_rabin_ret # "none" /\ IsPrime(arg_n) /\ arg_a # 0) =>
        miller_rabin_ret = "true"

\* C6: for every prime n and every nonzero base a, multiples of n and
\* negative bases included, fermats_test(n, a) returns true; a false result
\* for n >= 2 means n is composite.
C6_PrimesPassFermat ==
    /\ (fermat_ret # "none" /\ IsPrime(arg_n) /\ arg_a # 0) => fermat_ret = "true"
    /\ (fermat_ret = "false" /\ arg_n >= 2) => ~IsPrime(arg_n)

\* fermats_test has returned for a prime n and a negative multiple of n.
C6_Witness ==
    /\ fermat_ret = "true"
    /\ IsPrime(arg_n)
    /\ arg_a < 0
    /\ RefResidue(arg_a, arg_n) = 0

\* C9: for n in {561, 41041, 825265} and a = 2, fermats_test returns true
\* and miller_rabin_test returns false.
C9_CarmichaelNumbers ==
    (arg_n \in Carmichael /\ arg_a = 2) =>
        /\ fermat_ret \in {"none", "true"}
        /\ miller_rabin_ret \in {"none", "false"}

\* Both tests have returned for the largest of the three numbers and base 2.
C9_Witness ==
    /\ arg_n = 825265 /\ arg_a = 2
    /\ fermat_ret = "true"
    /\ miller_rabin_ret = "false"

\* C10: for n >= 1 and a # 0, miller_rabin_test(n, a) = true implies
\* fermats_test(n, a) = true; and some input with 1 < a < n - 1 coprime to n
\* passes Fermat's test and fails Miller-Rabin.
C10_MillerRabinAtLeastAsStrict ==
    /\ (arg_n >= 1 /\ arg_a # 0 /\ miller_rabin_ret = "true"
        /\ fermat_ret # "none") => fermat_ret = "true"
    /\ \E n \in 4 .. MaxN : \E a \in 2 .. MaxBase :
          /\ a < n - 1
          /\ \A d \in 2 .. a : ~(a % d = 0 /\ n % d = 0)
          /\ fermats_test(n, a) = "true"
          /\ miller_rabin_test(n, a) = "false"

\* Both tests have returned true for an odd composite n and a base that is
\* neither 1 nor n - 1 modulo n.
C10_Witness ==
    /\ miller_rabin_ret = "true"
    /\ fermat_ret = "true"
    /\ arg_n >= 9 /\ arg_n % 2 = 1 /\ ~IsPrime(arg_n)
    /\ RefResidue(arg_a, arg_n) \notin {1, arg_n - 1}

(***************************************************************************)
(* Further properties of the sieve (checked under Spec).                   *)
(***************************************************************************)
\* The number of primes <= b.
PrimePi(b) == Cardinality({p \in 2 .. b : IsPrime(p)})

\* C11: with upper_bound = usize::MAX no arithmetic of sieve_once wraps or
\* overflows in any reachable state: the scan never increments past
\* usize::MAX, the multiple walk stops where last_multiple + divisor does not
\* fit instead of wrapping (no step panics, no bit of a prime is set), and
\* run ends with the correct primes list.
C11_NoOverflowAtMaxBound ==
    (constructed /\ upper_bound = UsizeMax) =>
        /\ sieve_ret # "panic"
        /\ ~find_next_divisor(last_divisor, upper_bound, is_known_composite).ovf
        /\ sieve_once(TheState).ret \in {"Ok(true)", "Ok(false)"}
        /\ \A p \in 2 .. upper_bound : IsPrime(p) => ~is_known_composite[p - 1]
        /\ run_returned =>
              /\ StrictlyIncreasing(primes)
              /\ Range(primes) = {p \in 2 .. UsizeMax : IsPrime(p)}

\* With the bound at usize::MAX, a divisor whose next multiple does not fit a
\* usize has been processed and the scan has run up to the bound.
C11_Witness ==
    /\ constructed
    /\ upper_bound = UsizeMax
    /\ sieve_ret = "Ok(false)"
    /\ last_divisor + last_divisor > UsizeMax
    /\ ~checked_add(last_divisor, last_divisor).some

\* The primes list is the ascending list of all primes in 2 .. last_divisor,
\* and last_divisor is 1 for an empty list and the last element otherwise.
PrimesUpToLastDivisor ==
    /\ StrictlyIncreasing(primes)
    /\ Range(primes) = {p \in 2 .. last_divisor : IsPrime(p)}
    /\ last_divisor = IF primes = <<>> THEN 1 ELSE primes[Len(primes)]

\* C16: in every state reached from with_upper_bound(b) by sieve_once calls,
\* primes_found() is the ascending list of all primes in 2 .. last_divisor
\* (last_divisor = 1 for the empty list, else its last element); a sieve_once
\* returning Ok(true) appends exactly the smallest prime > last_divisor and
\* <= b, so the divisor it selects is prime.
C16_IncrementalCorrectness ==
    [][/\ constructed' => PrimesUpToLastDivisor'
       /\ (constructed /\ sieve_ret' = "Ok(true)") =>
             /\ primes' = Append(primes, last_divisor')
             /\ IsPrime(last_divisor')
             /\ last_divisor < last_divisor' /\ last_divisor' <= upper_bound
             /\ \A p \in last_divisor + 1 .. last_divisor' - 1 : ~IsPrime(p)
             /\ LET f == find_next_divisor(last_divisor, upper_bound,
                                           is_known_composite)
                IN f.some /\ f.val = last_divisor']_vars

\* A sieve_once has returned Ok(true) part-way: several primes found, more
\* primes left below the bound.
C16_Witness ==
    /\ constructed
    /\ ~run_returned
    /\ sieve_ret = "Ok(true)"
    /\ Len(primes) >= 3
    /\ \E p \in last_divisor + 1 .. upper_bound : IsPrime(p)

\* C17: the composite-bit table is monotone: no step clears a set bit; a
\* sieve_once with divisor d sets exactly the bits of the strict multiples
\* 2d, 3d, ... <= upper_bound and touches no other bit; the bit of 1 and the
\* bit of every prime stay unset.
C17_BitsMonotone ==
    [][/\ constructed =>
             /\ DOMAIN is_known_composite' = DOMAIN is_known_composite
             /\ \A i \in DOMAIN is_known_composite :
                   is_known_composite[i] => is_known_composite'[i]
       /\ (constructed /\ sieve_ret' = "Ok(true)") =>
             \A i \in DOMAIN is_known_composite :
                is_known_composite'[i] =
                   (\/ is_known_composite[i]
                    \/ \E c \in 2 .. upper_bound : i + 1 = c * last_divisor')
       /\ (constructed /\ sieve_ret' = "Ok(false)") =>
             is_known_composite' = is_known_composite
       /\ constructed' =>
             /\ DOMAIN is_known_composite' = 0 .. upper_bound' - 1
             /\ ~is_known_composite'[0]
             /\ \A p \in 2 .. upper_bound' :
                   IsPrime(p) => ~is_known_composite'[p - 1]]_vars

\* Several divisors have been processed and composite bits are set.
C17_Witness ==
    /\ constructed
    /\ sieve_ret = "Ok(true)"
    /\ last_divisor >= 3
    /\ \E i \in DOMAIN is_known_composite :
          is_known_composite[i] /\ (i + 1) % last_divisor = 0

\* C18: primes is strictly increasing and append-only in every reachable
\* state: a sieve_once leaves it unchanged (returning false) or extends it by
\* exactly one element greater than all previous ones (returning true); no
\* step removes, reorders or changes an element, and upper_bound never
\* changes.
C18_PrimesAppendOnly ==
    [][constructed =>
          /\ upper_bound' = upper_bound
          /\ Len(primes') >= Len(primes)
          /\ \A i \in DOMAIN primes : primes'[i] = primes[i]
          /\ StrictlyIncreasing(primes')
          /\ sieve_ret' = "Ok(false)" => primes' = primes
          /\ sieve_ret' = "Ok(true)" =>
                /\ Len(primes') = Len(primes) + 1
                /\ \A i \in DOMAIN primes : primes[i] < primes'[Len(primes')]]_vars

\* A sieve_once has extended a list of several primes by one.
C18_Witness ==
    /\ constructed
    /\ sieve_ret = "Ok(true)"
    /\ Len(primes) >= 5
    /\ upper_bound > last_divisor

\* C19: on every state reached from a successful with_upper_bound(n),
\* sieve_once and run return Ok (never an error, never a panic), and every
\* bit index read by find_next_divisor (potential_divisor - 1) or written by
\* mark_multiples_as_composite (multiple - 1) lies in 0 .. upper_bound - 1.
C19_SteppingNeverFails ==
    constructed =>
        /\ sieve_ret \in {"Ok(state)", "Ok(true)", "Ok(false)", "Ok(())"}
        /\ DOMAIN is_known_composite = 0 .. upper_bound - 1
        /\ LET f == find_next_divisor(last_divisor, upper_bound,
                                      is_known_composite)
           IN /\ ~f.ovf
              /\ ~f.oob
              /\ f.some =>
                    /\ f.val - 1 \in 0 .. upper_bound - 1
                    /\ ~mark_multiples_as_composite(f.val, upper_bound,
                                                    is_known_composite).panic
        /\ sieve_once(TheState).ret \in {"Ok(true)", "Ok(false)"}
        /\ run(TheState).ret = "Ok(())"

\* A scan has read the last bit of the table (index upper_bound - 1) and a
\* walk has written it.
C19_Witness ==
    /\ constructed
    /\ sieve_ret = "Ok(false)"
    /\ upper_bound >= 4
    /\ is_known_composite[upper_bound - 1]

\* C20: run terminates for every bound b >= 1.  From a fresh state sieve_once
\* returns true exactly PrimePi(b) times and then false, and run returns
\* Ok(()); last_divisor strictly increases on every successful step and
\* never exceeds upper_bound; stepping that is kept going reaches the
\* Ok(false) result.
C20_RunTerminates ==
    /\ [][constructed =>
             /\ last_divisor' <= upper_bound'
             /\ sieve_ret' = "Ok(true)" =>
                   /\ last_divisor' > last_divisor
                   /\ Len(primes') = Len(primes) + 1
                   /\ Len(primes') <= PrimePi(upper_bound)
             /\ sieve_ret' = "Ok(false)" =>
                   Len(primes') = PrimePi(upper_bound)
             /\ Run => /\ sieve_ret' = "Ok(())"
                       /\ Len(primes') = PrimePi(upper_bound)
                       /\ run_returned'
             /\ run(TheState).ret = "Ok(())"]_vars
    /\ (constructed ~> sieve_ret = "Ok(false)")

\* run has returned on a fresh state of a bound with many primes, in one call.
C20_Witness ==
    /\ run_returned
    /\ sieve_ret = "Ok(())"
    /\ Len(primes) = PrimePi(upper_bound)
    /\ Len(primes) >= 8
    /\ last_divisor <= upper_bound

(***************************************************************************)
(* Further properties of the primality tests (checked under PrimalitySpec).*)
(***************************************************************************)
\* C12: for every p in FIRST_100_PRIMES and base a = 2, fermats_test(p, 2)
\* and miller_rabin_test(p, 2) return true.
C12_First100PrimesPass ==
    (arg_n \in Range(FIRST_100_PRIMES) /\ arg_a = 2) =>
        /\ fermat_ret \in {"none", "true"}
        /\ miller_rabin_ret \in {"none", "true"}

\* Both tests have returned for the last entry of the table, 541, and base 2.
C12_Witness ==
    /\ Len(FIRST_100_PRIMES) = 100
    /\ arg_n = FIRST_100_PRIMES[Len(FIRST_100_PRIMES)]
    /\ arg_a = 2
    /\ fermat_ret = "true"
    /\ miller_rabin_ret = "true"

\* C13: n = 1 is never reported prime: for every nonzero base a,
\* fermats_test(1, a) and miller_rabin_test(1, a) return false, the latter
\* with a^0 mod 1 evaluated as 0.
C13_OneIsNotPrime ==
    (arg_n = 1 /\ arg_a # 0) =>
        /\ fermat_ret \in {"none", "false"}
        /\ miller_rabin_ret \in {"none", "false"}
        /\ miller_rabin_factor(arg_n - 1, 0) = [q |-> 0, k |-> 0]
        /\ pow_mod(arg_a, 0, arg_n) = 0

\* Both tests have returned for n = 1 and a negative base.
C13_Witness ==
    /\ arg_n = 1
    /\ arg_a < 0
    /\ fermat_ret = "false"
    /\ miller_rabin_ret = "false"

\* C14: for every nonzero base a, positive or negative, odd or even,
\* miller_rabin_test(2, a) returns true.
C14_TwoPassesMillerRabin ==
    (arg_n = 2 /\ arg_a # 0) => miller_rabin_ret \in {"none", "true"}

\* miller_rabin_test has returned for n = 2 and a negative even base.
C14_Witness ==
    /\ arg_n = 2
    /\ arg_a < 0 /\ arg_a % 2 = 0
    /\ miller_rabin_ret = "true"

\* C15: for n in {6, 21, 22, 198, 3127} and base a = 2, fermats_test and
\* miller_rabin_test return false.
C15_CompositesFail ==
    (arg_n \in NonCarmichaelComposites /\ arg_a = 2) =>
        /\ fermat_ret \in {"none", "false"}
        /\ miller_rabin_ret \in {"none", "false"}

\* Both tests have returned for 3127 = 53 * 59 and base 2.
C15_Witness ==
    /\ NonCarmichaelComposites = {6, 21, 22, 198, 3127}
    /\ arg_n = 3127
    /\ arg_a = 2
    /\ fermat_ret = "false"
    /\ miller_rabin_ret = "false"

====
